---- MODULE Spec2Model ----
(***************************************************************************)
(* Expense tracker: the request handlers of api/main.py, the extraction    *)
(* pipeline of pipeline/ocr_model.py, the analyzers of                      *)
(* pipeline/financial_insights.py and the persistence adapter of            *)
(* database/supabase_client.py, as one state machine.                       *)
(*                                                                         *)
(* Every handler is an `async def` without a single await, so a handler    *)
(* that has started runs to completion before the event loop serves the    *)
(* next request: there is one handler in flight (pc /= "idle") at a time.  *)
(* What the program does not control is drawn nondeterministically: the    *)
(* uploaded file, the text the language model returns, an exception of the *)
(* model client, an I/O error of the disk and a failure of a database      *)
(* call.                                                                    *)
(*                                                                         *)
(* Abstractions: amounts are integers (minor units); a timestamp is the    *)
(* value of a logical clock; a JSON text is represented by what            *)
(* JsonOutputParser makes of it (its form and the value it decodes to).    *)
(***************************************************************************)
EXTENDS Integers, Sequences, FiniteSets, TLC

VARIABLES
    now,                \* logical clock: datetime.now()
    fs,                 \* names of the files that exist in the working directory
    expenses,           \* Supabase table "expenses", rows in insertion order
    user_profiles,      \* Supabase table "user_profiles", rows in insertion order
    financial_insights, \* Supabase table "financial_insights"
    sql_expenses,       \* table "expenses" behind the analyzer's SQLAlchemy engine
    nreq,               \* requests started so far
    pc,                 \* position of the handler in flight, "idle" when none
    req,                \* the request being served (kept after completion)
    loc,                \* the handler's local variables
    resp,               \* the HTTP response of the last completed request
    calls,              \* model invocations and database calls of this request
    hist,               \* per user, the upsert calls so far in the order of their
                        \* writes: the request, the path taken, the outcome,
                        \* whether the data had a user_id key, whether the
                        \* existence check could read, and the income written
    peer,               \* a second server process on the same store and working
                        \* directory: its pc, req, loc, resp and calls while the
                        \* first one runs
    disk,               \* per temp file, the upload whose bytes it holds
    call                \* the last direct call of a persistence adapter operation

vars == <<now, fs, expenses, user_profiles, financial_insights, sql_expenses,
          nreq, pc, req, loc, resp, calls, hist, peer, disk, call>>

stores == <<expenses, user_profiles, financial_insights>>

(***************************************************************************)
(* Bounds                                                                  *)
(***************************************************************************)
MaxRequests == 2
MaxTime == 1

Users == {"u1", "u2"}

(***************************************************************************)
(* JSON values of an extraction: the expense objects the model may emit    *)
(***************************************************************************)
Num(n) == [k |-> "num", n |-> n]
Str(n) == [k |-> "numstr", n |-> n]     \* a numeric string such as "1"
BadStr == [k |-> "badstr", n |-> 0]     \* a non-numeric string such as "abc"
Null   == [k |-> "null", n |-> 0]
Absent == [k |-> "absent", n |-> 0]
\* a string that closes the quoted argument it is put into and goes on in
\* SQL, such as "0 days') OR 1=1 --"
SqlStr == [k |-> "sql", n |-> 0]

\* the five ExpenseItem fields; `extra`: the object carries further keys;
\* a field that is "absent" is missing from the object, "null" is JSON null
ItemCoffee == [bill_no |-> "123", expence_name |-> "Coffee", amount |-> Num(4),
               category |-> "Food", mode |-> "card", extra |-> FALSE]
ItemBus    == [bill_no |-> "null", expence_name |-> "Bus", amount |-> Num(2),
               category |-> "Transport", mode |-> "cash", extra |-> FALSE]
ItemExtra  == [bill_no |-> "7", expence_name |-> "Gift", amount |-> Num(3),
               category |-> "Gifts", mode |-> "upi", extra |-> TRUE]
ItemNoName == [bill_no |-> "8", expence_name |-> "absent", amount |-> Str(1),
               category |-> "Food", mode |-> "card", extra |-> FALSE]
ItemBadAmount  == [bill_no |-> "9", expence_name |-> "Tea", amount |-> BadStr,
                   category |-> "Food", mode |-> "card", extra |-> FALSE]
ItemNullAmount == [bill_no |-> "10", expence_name |-> "Taxi", amount |-> Null,
                   category |-> "Transport", mode |-> "card", extra |-> FALSE]

Categories ==
    {"Food", "Grocery", "Transport", "Fuel", "Travel", "Utilities", "Rent",
     "Health", "Pharmacy", "Education", "Entertainment", "Shopping",
     "Electronics", "Home", "Services", "Subscriptions", "Fees", "Taxes",
     "Office", "Misc"}

\* a decoded JSON value: its top-level shape, the elements of an array, and
\* whether an object has an "error" key
Val(shape, items, err) == [shape |-> shape, items |-> items, err |-> err]
NoVal == Val("none", <<>>, FALSE)

ArrayPool ==
    { <<>>, <<ItemCoffee>>, <<ItemCoffee, ItemBus>>, <<ItemExtra>>,
      <<ItemCoffee, ItemBus, ItemNoName>>, <<ItemCoffee, ItemBadAmount>>,
      <<ItemNullAmount>> }

\* a text of the model: form "json" (bare JSON), "fenced" (JSON inside a
\* markdown fence) or "prose"; ftp: the text contains "Failed to parse"
Text(form, ftp, val) == [form |-> form, ftp |-> ftp, val |-> val]
NoText == Text("none", FALSE, NoVal)

ExtractionTexts ==
    { Text("json", FALSE, Val("array", a, FALSE)) : a \in ArrayPool }
    \cup { Text("fenced", FALSE, Val("array", <<ItemCoffee>>, FALSE)),
           Text("json", FALSE, Val("object", <<>>, FALSE)),
           Text("json", FALSE, Val("scalar", <<>>, FALSE)),
           Text("prose", FALSE, NoVal),      \* "Sorry, I can't help with that"
           Text("prose", TRUE, NoVal) }      \* "Failed to parse the image"

(***************************************************************************)
(* Exceptions                                                              *)
(***************************************************************************)
Exc(type, ftp, status, detail) ==
    [type |-> type, ftp |-> ftp, status |-> status, detail |-> detail]
NoExc == Exc("none", FALSE, 0, "")
HTTPException(status, detail) == Exc("HTTPException", FALSE, status, detail)

ReceiptMessage == "The provided image does not appear to be a bill or receipt."

(***************************************************************************)
(* Uploaded files and the temp file of the extraction endpoints            *)
(***************************************************************************)
Filenames == {"r.jpg", "r.pdf", "d/r.jpg"}
Contents  == {"image", "pdf"}

\* main.py 59, 106: temp_file = f"temp_{file.filename}"
TempName(filename) == "temp_" \o filename

\* open(temp_file, "wb") needs the directory of the path; the working
\* directory has no directory "temp_d"
DirMissing(path) == path = "temp_d/r.jpg"

\* mimetypes.guess_type goes by the extension of the path
guess_type(path) ==
    IF path = "temp_r.pdf" THEN "application/pdf"
    ELSE IF path \in {"temp_r.jpg", "temp_d/r.jpg"} THEN "image/jpeg"
    ELSE "none"

(***************************************************************************)
(* pipeline/ocr_model.py                                                   *)
(***************************************************************************)
\* variant: the input type is always guessed from the input
ResolveInputType_Guess(input_type, is_path, path) ==
    IF is_path /\ guess_type(path) = "application/pdf" THEN "pdf" ELSE "image"

\* extract_expense, lines 55-63: the input type when the caller gives none
\* (input_type = "none"), is_path: isinstance(input_data, str)
ResolveInputType(input_type, is_path, path) ==
    IF input_type = "none" /\ is_path
    THEN (IF guess_type(path) = "application/pdf" THEN "pdf" ELSE "image")
    ELSE IF input_type = "none" THEN "image"
    ELSE input_type

\* lines 65-79: the exception of the encoding step, NoExc when it succeeds.
\* image_to_base64 reads the bytes whatever they are; pdf_to_text needs a
\* PDF (pdfplumber raises on anything else); io: the read of the file works
EncodeMedia(input_type, content, io) ==
    IF input_type = "image"
    THEN (IF io THEN NoExc ELSE Exc("OSError", FALSE, 0, "read failed"))
    ELSE IF input_type = "pdf"
    THEN (IF ~io THEN Exc("OSError", FALSE, 0, "read failed")
          ELSE IF content = "pdf" THEN NoExc
          ELSE Exc("PDFSyntaxError", FALSE, 0, "not a PDF"))
    ELSE Exc("ValueError", FALSE, 0, "Invalid input_type. Use 'image' or 'pdf'.")

\* lines 82-83, JsonOutputParser().parse(text): the value of bare or fenced
\* JSON; anything else raises OutputParserException, never JSONDecodeError,
\* with the message "Invalid json output: <text>"
ParseOk(text) == text.form \in {"json", "fenced"}
ParseValue(text) == text.val
ParseError(text) == Exc("OutputParserException", text.ftp, 0, "Invalid json output")

(***************************************************************************)
(* database/supabase_client.py: expenses                                   *)
(***************************************************************************)
\* variant: every amount is taken as a number
CanFloat_Any(a) == TRUE

\* float(expense.get("amount", 0)), line 48
CanFloat(a) == a.k \in {"num", "numstr", "absent"}
ToFloat(a) == IF a.k = "absent" THEN 0 ELSE a.n

\* expense.get(key) of a string field: None when the key is missing
GetField(v) == IF v = "absent" THEN "null" ELSE v

\* lines 44-52
ExpenseRecord(user_id, e, t) ==
    [user_id |-> user_id, bill_no |-> GetField(e.bill_no),
     expence_name |-> GetField(e.expence_name), amount |-> ToFloat(e.amount),
     category |-> GetField(e.category), mode |-> GetField(e.mode),
     created_date |-> t]

Result(success, count, data, error) ==
    [success |-> success, inserted_count |-> count, data |-> data, error |-> error]
NoResult == Result(FALSE, 0, <<>>, "none")

\* the outcome of a try block: the exception it raised ("" when none) and
\* the value it returned
Tried(raised, value) == [raised |-> raised, value |-> value]

\* variant: the operation has no except clause
AdapterExcept_None(tried, fallback) == tried

\* `except Exception as e: return <fallback>`, lines 64-68, 94-96, 125-127,
\* 150-152, 192-196, 227-231 and 261-263
AdapterExcept(tried, fallback) ==
    IF tried.raised = "" THEN tried ELSE Tried("", fallback)

\* the try block of insert_expenses, lines 41-62. data: the decoded model
\* output; an object or a scalar is no list of dictionaries, and the loop
\* raises on it. ok: the backend accepts the (single, atomic) bulk insert
insert_expenses_try(user_id, data, ok, t) ==
    IF data.shape # "array"
    THEN Tried("AttributeError", NoResult)
    ELSE IF \E i \in 1..Len(data.items) : ~CanFloat(data.items[i].amount)
    THEN Tried("ValueError", NoResult)
    ELSE IF ~ok
    THEN Tried("APIError", NoResult)
    ELSE Tried("", Result(TRUE, Len(data.items),
                [i \in 1..Len(data.items) |-> ExpenseRecord(user_id, data.items[i], t)],
                ""))

\* insert_expenses, lines 40-68: what a call raises and returns
insert_expenses_call(user_id, data, ok, t) ==
    LET tried == insert_expenses_try(user_id, data, ok, t)
    IN  AdapterExcept(tried, Result(FALSE, 0, <<>>, tried.raised))

insert_expenses(user_id, data, ok, t) ==
    insert_expenses_call(user_id, data, ok, t).value

RECURSIVE SelectExpenses(_, _, _, _)
\* the rows of table[1..i] of user_id created at or after threshold, latest first
SelectExpenses(table, i, user_id, threshold) ==
    IF i = 0 THEN <<>>
    ELSE (IF table[i].user_id = user_id /\ table[i].created_date >= threshold
          THEN <<table[i]>> ELSE <<>>)
         \o SelectExpenses(table, i - 1, user_id, threshold)

\* the try block of fetch_user_expenses, lines 82-92: the user's rows no
\* older than `days`, latest first (rows are stored in the order of their
\* timestamps; rows of one timestamp come in reverse insertion order).
\* days is what the caller passed: timedelta raises on anything but a number
fetch_user_expenses_try(table, user_id, days, ok, t) ==
    IF days.k # "num" THEN Tried("TypeError", <<>>)
    ELSE IF ~ok THEN Tried("APIError", <<>>)
    ELSE Tried("", SelectExpenses(table, Len(table), user_id, t - days.n))

\* fetch_user_expenses, lines 81-96: [] on any error
fetch_user_expenses_call(table, user_id, days, ok, t) ==
    AdapterExcept(fetch_user_expenses_try(table, user_id, days, ok, t), <<>>)

\* the call with an integer `days`, as the handlers make it
fetch_user_expenses(table, user_id, days, ok, t) ==
    fetch_user_expenses_call(table, user_id, Num(days), ok, t).value

RECURSIVE SumAmounts(_, _)
\* line 108: sum(expense["amount"] for expense in expenses)
SumAmounts(exps, i) ==
    IF i > Len(exps) THEN 0 ELSE exps[i].amount + SumAmounts(exps, i + 1)

RECURSIVE FoldCategories_Overwrite(_, _, _)
\* variant: the category's amount is assigned, not accumulated
FoldCategories_Overwrite(exps, i, categories) ==
    IF i > Len(exps) THEN categories
    ELSE LET category == exps[i].category
             seen == IF category \in DOMAIN categories
                     THEN categories
                     ELSE categories @@ (category :> [amount |-> 0, count |-> 0])
         IN  FoldCategories_Overwrite(exps, i + 1,
                 [seen EXCEPT ![category] =
                     [amount |-> exps[i].amount, count |-> @.count + 1]])

RECURSIVE FoldCategories(_, _, _)
\* lines 111-116: the loop over the records, categories the mapping so far
FoldCategories(exps, i, categories) ==
    IF i > Len(exps) THEN categories
    ELSE LET category == exps[i].category
             seen == IF category \in DOMAIN categories
                     THEN categories
                     ELSE categories @@ (category :> [amount |-> 0, count |-> 0])
         IN  FoldCategories(exps, i + 1,
                 [seen EXCEPT ![category] =
                     [amount |-> @.amount + exps[i].amount, count |-> @.count + 1]])

NoCategories == [c \in {} |-> [amount |-> 0, count |-> 0]]

\* period_days = -1: the key is not in the mapping
Summary(total, count, categories, period_days) ==
    [total |-> total, count |-> count, categories |-> categories,
     period_days |-> period_days]
NoSummary == Summary(-1, -1, NoCategories, -1)

\* get_expense_summary, lines 102-123, of the list its own fetch returned
SummaryOf(exps, days) ==
    IF exps = <<>>
    THEN Summary(0, 0, NoCategories, -1)
    ELSE Summary(SumAmounts(exps, 1), Len(exps),
                 FoldCategories(exps, 1, NoCategories), days)

\* the mapping of the except clause, line 127
ErrorSummary == [error |-> "error"]

\* the rows of the engine carry an amount and a category, so nothing in the
\* try block of lines 103-123 raises: a failed read arrives as the empty list
get_expense_summary_try(table, user_id, days, ok, t) ==
    Tried("", SummaryOf(fetch_user_expenses(table, user_id, days, ok, t), days))

get_expense_summary_call(table, user_id, days, ok, t) ==
    AdapterExcept(get_expense_summary_try(table, user_id, days, ok, t), ErrorSummary)

get_expense_summary(table, user_id, days, ok, t) ==
    get_expense_summary_call(table, user_id, days, ok, t).value

(***************************************************************************)
(* Requests, locals and responses                                          *)
(***************************************************************************)
\* the body of PUT /profile: a key that is "" or -1 is not in the mapping
ProfileData(income, user_id, updated_date, created_date) ==
    [monthly_income |-> income, user_id |-> user_id,
     updated_date |-> updated_date, created_date |-> created_date]
NoData == ProfileData(0, "", -1, -1)

\* id: the number of the request, in the order of arrival
NoReq ==
    [id |-> 0, ep |-> "none", user_id |-> "", filename |-> "", content |-> "",
     days |-> 0, report_type |-> "", profile_data |-> NoData,
     input_data |-> "", input_type |-> "none"]

NoRow == [user_id |-> "", monthly_income |-> 0, created_date |-> -1, updated_date |-> -1]
\* the mapping fetch_user_profile returns: {} when found is FALSE
Profile(found, row) == [found |-> found, row |-> row]
NoProfile == Profile(FALSE, NoRow)

\* the mapping an analyzer returns: has_error: it has an "error" key
Payload(kind, has_error, error) == [kind |-> kind, has_error |-> has_error, error |-> error]
NoPayload == Payload("none", FALSE, "")

\* the mapping classify_intent returns: has_error: it has an "error" key
Intent(has_error, requires_data_fetch, suggested_analysis_period) ==
    [has_error |-> has_error, requires_data_fetch |-> requires_data_fetch,
     suggested_analysis_period |-> suggested_analysis_period]
NoIntent == Intent(FALSE, FALSE, Absent)

InitLoc ==
    [temp_file |-> "", text |-> NoText, extracted_data |-> NoVal, exc |-> NoExc,
     save_result |-> NoResult, returned |-> FALSE, expenses |-> <<>>,
     summary_src |-> <<>>, summary |-> NoSummary, profile |-> NoProfile,
     path |-> "none", insights |-> NoPayload, budget |-> NoPayload,
     anomalies |-> NoPayload, analyzer |-> "none", fetched |-> <<>>,
     historical |-> <<>>, media |-> 0, read_ok |-> TRUE, cause |-> NoExc,
     intent |-> NoIntent, response |-> NoPayload, input_type |-> "none",
     encoded |-> FALSE, query |-> ""]

NoResp ==
    [status |-> 0, detail |-> "", extracted_data |-> <<>>,
     saved_to_database |-> FALSE, user_id |-> "", expenses |-> <<>>,
     summary |-> NoSummary, profile |-> NoRow, payload |-> NoPayload]

ErrorResp(status, detail) == [NoResp EXCEPT !.status = status, !.detail = detail]

NoCalls == [llm |-> 0, db_read |-> 0, db_write |-> 0]

\* what the table behind the analyzer's engine may hold; nothing in the
\* program writes to it
SqlFixtures == { <<>>, <<ExpenseRecord("u1", ItemCoffee, 0)>> }

ExtractEndpoints == {"POST /extract/{user_id}", "POST /extract"}

\* the bytes of a temp file: the request that wrote them and what they are
Bytes(id, content) == [id |-> id, content |-> content]
NoBytes == Bytes(0, "")
TempNames == {TempName(f) : f \in Filenames}

\* a server process that serves no request
IdleProcess == [pc |-> "idle", req |-> NoReq, loc |-> InitLoc, resp |-> NoResp,
                calls |-> NoCalls]

\* the argument of save_financial_insights: is_dict: it is a mapping;
\* intent: its response_metadata.intent, "" when it has none; keys: "str"
\* when it is made of JSON values with string keys, "int" when a key is an
\* integer, "obj" when it holds a value JSON has no form for (a datetime)
InsightsData(is_dict, intent, keys) ==
    [is_dict |-> is_dict, intent |-> intent, keys |-> keys]
NoInsightsData == InsightsData(FALSE, "", "str")

\* json.dumps, line 213: the text of a value; every key is written as a
\* string
JsonDumpable(v) == v.keys # "obj"
json_dumps(v) == [json |-> [v EXCEPT !.keys = "str"]]
\* json.loads, line 256: the value a text stands for
json_loads(text) == text.json

\* saved: the value the row was saved from (no column of the table: kept
\* for the properties)
NoInsightsRow ==
    [user_id |-> "", insights_data |-> NoInsightsData, generated_date |-> -1,
     insights_type |-> "", saved |-> NoInsightsData]
\* the mapping get_latest_insights returns: {} when found is FALSE
Insights(found, row) == [found |-> found, row |-> row]
NoInsights == Insights(FALSE, NoInsightsRow)

\* a direct call of an adapter operation: its arguments, the backend's
\* outcome (ok), the time of the call, the table before it, the exception
\* raised inside its try block (inner), the exception that left it (raised)
\* and the value it returned, in the field of its type
NoCall ==
    [op |-> "none", user_id |-> "", data |-> NoVal, days |-> Num(0),
     profile_data |-> NoData, insights_data |-> NoInsightsData,
     insights_type |-> "", ok |-> TRUE, t |-> 0, before |-> <<>>,
     inner |-> "", raised |-> "", result |-> NoResult, rows |-> <<>>,
     profile |-> NoProfile, summary |-> NoSummary, insights |-> NoInsights]

Init ==
    /\ now = 0
    /\ fs \in SUBSET {"temp_r.jpg"}
    /\ expenses = <<>>
    /\ user_profiles = <<>>
    /\ financial_insights = <<>>
    /\ sql_expenses \in SqlFixtures
    /\ nreq = 0
    /\ pc = "idle"
    /\ req = NoReq
    /\ loc = InitLoc
    /\ resp = NoResp
    /\ calls = NoCalls
    /\ hist = [u \in Users |-> <<>>]
    /\ peer = IdleProcess
    /\ disk = [n \in TempNames |-> IF n \in fs THEN Bytes(0, "image") ELSE NoBytes]
    /\ call = NoCall

\* a request arrives and its handler starts at `first`
Begin(r, first, l) ==
    /\ pc = "idle"
    /\ nreq < MaxRequests
    /\ nreq' = nreq + 1
    /\ req' = [r EXCEPT !.id = nreq + 1]
    /\ pc' = first
    /\ loc' = l
    /\ resp' = NoResp
    /\ calls' = NoCalls
    /\ UNCHANGED <<now, fs, stores, sql_expenses, hist, peer, disk, call>>

\* time passes between two requests
Tick ==
    /\ pc = "idle"
    /\ now < MaxTime
    /\ now' = now + 1
    /\ UNCHANGED <<fs, stores, sql_expenses, nreq, pc, req, loc,
                   resp, calls, hist, peer, disk, call>>

(***************************************************************************)
(* api/main.py: POST /extract/{user_id} and POST /extract                  *)
(***************************************************************************)
\* lines 54-59
extract_and_save_expense ==
    \E u \in Users, f \in Filenames, c \in Contents :
        Begin([NoReq EXCEPT !.ep = "POST /extract/{user_id}", !.user_id = u,
                            !.filename = f, !.content = c],
              "save_upload", [InitLoc EXCEPT !.temp_file = TempName(f)])

\* lines 101-106
extract_expense_only ==
    \E f \in Filenames, c \in Contents :
        Begin([NoReq EXCEPT !.ep = "POST /extract", !.filename = f, !.content = c],
              "save_upload", [InitLoc EXCEPT !.temp_file = TempName(f)])

\* lines 63-64, 110-111: open(temp_file, "wb") and shutil.copyfileobj
SaveUpload ==
    /\ pc = "save_upload"
    /\ \E io \in {"ok", "open_fails", "copy_fails"} :
         IF DirMissing(loc.temp_file) \/ io = "open_fails"
         THEN /\ fs' = fs
              /\ disk' = disk
              /\ loc' = [loc EXCEPT !.exc = Exc("OSError", FALSE, 0, "open failed")]
              /\ pc' = "outer_except"
         ELSE IF io = "copy_fails"
         THEN /\ fs' = fs \cup {loc.temp_file}
              /\ disk' = [disk EXCEPT ![loc.temp_file] = Bytes(req.id, "truncated")]
              /\ loc' = [loc EXCEPT !.exc = Exc("OSError", FALSE, 0, "write failed")]
              /\ pc' = "outer_except"
         ELSE /\ fs' = fs \cup {loc.temp_file}
              /\ disk' = [disk EXCEPT ![loc.temp_file] = Bytes(req.id, req.content)]
              /\ loc' = loc
              /\ pc' = "encode"
    /\ UNCHANGED <<now, stores, sql_expenses, nreq, req, resp, calls, hist, peer, call>>

\* ocr_model.py 55-79, called at main.py 68, 115 with the path alone: the
\* file at that path is opened and read, whoever wrote it
Encode ==
    /\ pc = "encode"
    /\ \E io \in BOOLEAN :
         LET e == IF loc.temp_file \notin fs
                  THEN Exc("FileNotFoundError", FALSE, 0, "No such file or directory")
                  ELSE EncodeMedia(ResolveInputType("none", TRUE, loc.temp_file),
                                   disk[loc.temp_file].content, io)
         IN  /\ loc' = [loc EXCEPT !.exc = e,
                                    !.media = IF e = NoExc THEN disk[loc.temp_file].id
                                              ELSE 0]
             /\ pc' = IF e = NoExc THEN "invoke" ELSE "inner_except"
    /\ UNCHANGED <<now, fs, stores, sql_expenses, nreq, req, resp, calls, hist, peer, disk, call>>

\* ocr_model.py 81: self.llm.invoke([msg]) returns a text or raises
Invoke ==
    /\ pc = "invoke"
    /\ calls' = [calls EXCEPT !.llm = @ + 1]
    /\ \/ \E t \in ExtractionTexts :
            /\ loc' = [loc EXCEPT !.text = t]
            /\ pc' = "parse"
       \/ \E e \in {"InvalidArgument", "ServiceUnavailable"} :
            /\ loc' = [loc EXCEPT !.exc = Exc(e, FALSE, 0, "model call failed")]
            /\ pc' = "inner_except"
    /\ UNCHANGED <<now, fs, stores, sql_expenses, nreq, req, resp, hist, peer, disk, call>>

\* variant: the legacy handler persists as well
AfterParse_Insert(ep) == "insert"

\* main.py 80: only extract_and_save_expense goes on to the insert
AfterParse(ep) == IF ep = "POST /extract/{user_id}" THEN "insert" ELSE "return"

\* ocr_model.py 82-83
Parse ==
    /\ pc = "parse"
    /\ IF ParseOk(loc.text)
       THEN /\ loc' = [loc EXCEPT !.extracted_data = ParseValue(loc.text)]
            /\ pc' = AfterParse(req.ep)
       ELSE /\ loc' = [loc EXCEPT !.exc = ParseError(loc.text)]
            /\ pc' = "inner_except"
    /\ UNCHANGED <<now, fs, stores, sql_expenses, nreq, req, resp, calls, hist, peer, disk, call>>

\* variant: the handler has no except clauses around extract_expense
ExtractionExcept_Reraise(e) == e

\* main.py 69-77, 116-124: the except clauses around extract_expense
ExtractionExcept(e) ==
    IF e.type = "InvalidArgument"
    THEN HTTPException(400, "Invalid image provided")
    ELSE IF e.type = "JSONDecodeError"
    THEN HTTPException(400, ReceiptMessage)
    ELSE IF e.ftp
    THEN HTTPException(400, ReceiptMessage)
    ELSE e

\* variant: a transport error of the model client is retried once
AfterExtractionFailure_Retry(e, invocations) ==
    IF e.type = "ServiceUnavailable" /\ invocations < 2 THEN "invoke"
    ELSE "outer_except"

\* main.py 69-77, 116-124: every except clause raises, and what it raises
\* goes to the clauses of the outer try; nothing leads back to line 68
AfterExtractionFailure(e, invocations) == "outer_except"

InnerExcept ==
    /\ pc = "inner_except"
    /\ loc' = [loc EXCEPT !.exc = ExtractionExcept(loc.exc), !.cause = loc.exc]
    /\ pc' = AfterExtractionFailure(loc.exc, calls.llm)
    /\ UNCHANGED <<now, fs, stores, sql_expenses, nreq, req, resp, calls, hist, peer, disk, call>>

\* variant: the result of the insert is not looked at
SaveFailed_Never(r) == FALSE

\* main.py 82: if not save_result.get("success", False)
SaveFailed(r) == ~r.success

\* main.py 80-83
InsertExpenses ==
    /\ pc = "insert"
    /\ \E ok \in BOOLEAN :
         LET r == insert_expenses(req.user_id, loc.extracted_data, ok, now)
         IN  /\ expenses' = IF r.success THEN expenses \o r.data ELSE expenses
             /\ calls' = [calls EXCEPT !.db_write = @ + 1]
             /\ IF ~SaveFailed(r)
                THEN /\ loc' = [loc EXCEPT !.save_result = r]
                     /\ pc' = "return"
                ELSE /\ loc' = [loc EXCEPT !.save_result = r,
                                    !.exc = HTTPException(500, "Failed to save to database")]
                     /\ pc' = "outer_except"
    /\ UNCHANGED <<now, fs, user_profiles, financial_insights, sql_expenses,
                   nreq, req, resp, hist, peer, disk, call>>

\* main.py 85-89, 126-130: the return statement
ReturnExtraction ==
    /\ pc = "return"
    /\ loc' = [loc EXCEPT !.returned = TRUE]
    /\ pc' = "finally"
    /\ UNCHANGED <<now, fs, stores, sql_expenses, nreq, req, resp, calls, hist, peer, disk, call>>

\* main.py 91-94, 132-135
OuterHandler(e) ==
    IF e.type = "HTTPException" THEN e ELSE HTTPException(500, "Extraction failed")

OuterExcept ==
    /\ pc = "outer_except"
    /\ loc' = [loc EXCEPT !.exc = OuterHandler(loc.exc)]
    /\ pc' = "finally"
    /\ UNCHANGED <<now, fs, stores, sql_expenses, nreq, req, resp, calls, hist, peer, disk, call>>

\* variant: the temp file is left behind
RemoveTemp_Keep(files, temp_file) == files

\* main.py 95-98, 136-139
RemoveTemp(files, temp_file) == IF temp_file \in files THEN files \ {temp_file} ELSE files

Finally ==
    /\ pc = "finally"
    /\ fs' = RemoveTemp(fs, loc.temp_file)
    /\ disk' = [n \in TempNames |-> IF n \in fs' THEN disk[n] ELSE NoBytes]
    /\ pc' = "respond_extraction"
    /\ UNCHANGED <<now, stores, sql_expenses, nreq, req, loc, resp, calls, hist, peer, call>>

\* main.py 28-38 and response_model=ExtractionResponse (54, 101): the
\* returned mapping is validated against List[ExpenseItem] and serialised
\* through it. bill_no may be null; a further key is dropped
ValidItem(e) ==
    /\ e.expence_name \notin {"absent", "null"}
    /\ e.amount.k \in {"num", "numstr"}
    /\ e.category \notin {"absent", "null"}
    /\ e.mode \notin {"absent", "null"}
    /\ e.bill_no # "absent"

ValidExtraction(data) ==
    /\ data.shape = "array"
    /\ \A i \in 1..Len(data.items) : ValidItem(data.items[i])

SerialiseItem(e) ==
    [bill_no |-> e.bill_no, expence_name |-> e.expence_name,
     amount |-> Num(ToFloat(e.amount)), category |-> e.category,
     mode |-> e.mode, extra |-> FALSE]

ExtractionResponse(data, saved, user_id) ==
    IF ValidExtraction(data)
    THEN [NoResp EXCEPT !.status = 200,
                        !.extracted_data = [i \in 1..Len(data.items) |-> SerialiseItem(data.items[i])],
                        !.saved_to_database = saved,
                        !.user_id = user_id]
    ELSE ErrorResp(500, "Internal Server Error")

RespondExtraction ==
    /\ pc = "respond_extraction"
    /\ resp' = IF loc.returned
               THEN IF req.ep = "POST /extract/{user_id}"
                    THEN ExtractionResponse(loc.extracted_data, TRUE, req.user_id)
                    ELSE ExtractionResponse(loc.extracted_data, FALSE, "not_specified")
               ELSE ErrorResp(loc.exc.status, loc.exc.detail)
    /\ pc' = "idle"
    /\ UNCHANGED <<now, fs, stores, sql_expenses, nreq, req, loc, calls, hist, peer, disk, call>>

(***************************************************************************)
(* api/main.py: GET /expenses/{user_id}                                    *)
(***************************************************************************)
Days == {0, 1, 30}

\* lines 284-289
get_user_expenses ==
    \E u \in Users, d \in Days :
        Begin([NoReq EXCEPT !.ep = "GET /expenses/{user_id}", !.user_id = u, !.days = d],
              "fetch_expenses", InitLoc)

\* line 290
FetchExpenses ==
    /\ pc = "fetch_expenses"
    /\ \E ok \in BOOLEAN :
         loc' = [loc EXCEPT !.expenses =
                     fetch_user_expenses(expenses, req.user_id, req.days, ok, now)]
    /\ calls' = [calls EXCEPT !.db_read = @ + 1]
    /\ pc' = "summary"
    /\ UNCHANGED <<now, fs, stores, sql_expenses, nreq, req, resp, hist, peer, disk, call>>

\* line 291; summary_src: the list the summary's own fetch returned
ExpenseSummary ==
    /\ pc = "summary"
    /\ \E ok \in BOOLEAN :
         loc' = [loc EXCEPT
                   !.summary_src = fetch_user_expenses(expenses, req.user_id, req.days, ok, now),
                   !.summary = get_expense_summary(expenses, req.user_id, req.days, ok, now)]
    /\ calls' = [calls EXCEPT !.db_read = @ + 1]
    /\ pc' = "respond_expenses"
    /\ UNCHANGED <<now, fs, stores, sql_expenses, nreq, req, resp, hist, peer, disk, call>>

\* lines 293-298
RespondExpenses ==
    /\ pc = "respond_expenses"
    /\ resp' = [NoResp EXCEPT !.status = 200, !.expenses = loc.expenses,
                              !.summary = loc.summary, !.user_id = req.user_id]
    /\ pc' = "idle"
    /\ UNCHANGED <<now, fs, stores, sql_expenses, nreq, req, loc, calls, hist, peer, disk, call>>

\* the extraction endpoints and the expense listing, which share the
\* expenses table and the working directory
NextExpenses ==
    \/ extract_and_save_expense
    \/ extract_expense_only
    \/ SaveUpload
    \/ Encode
    \/ Invoke
    \/ Parse
    \/ InnerExcept
    \/ InsertExpenses
    \/ ReturnExtraction
    \/ OuterExcept
    \/ Finally
    \/ RespondExtraction
    \/ get_user_expenses
    \/ FetchExpenses
    \/ ExpenseSummary
    \/ RespondExpenses
    \/ Tick

\* the analyzer's table plays no part here
InitExpenses == Init /\ sql_expenses = <<>>

SpecExpenses == InitExpenses /\ [][NextExpenses]_vars

(***************************************************************************)
(* pipeline/ocr_model.py: extract_expense called with any input and any    *)
(* input_type                                                              *)
(***************************************************************************)
\* ocr_model.py 56: isinstance(input_data, str); the other inputs are raw
\* bytes and an image matrix
IsPath(input_data) == input_data \notin {"<bytes>", "<ndarray>"}

\* lines 48-63: the call and the resolution of the input type
CallExtractExpense ==
    \E d \in {"temp_r.jpg", "temp_r.pdf", "notes", "<bytes>", "<ndarray>"},
       ty \in {"none", "image", "pdf", "docx"}, c \in Contents :
        Begin([NoReq EXCEPT !.ep = "extract_expense", !.input_data = d,
                            !.input_type = ty, !.content = c],
              "extractor_encode",
              [InitLoc EXCEPT !.input_type = ResolveInputType(ty, IsPath(d), d)])

\* lines 65-79: image_to_base64 or pdf_to_text is called, or the ValueError
\* is raised; pdfplumber opens a path, and a PDF only
ExtractEncode ==
    /\ pc = "extractor_encode"
    /\ \E io \in BOOLEAN :
         LET e == EncodeMedia(loc.input_type,
                              IF IsPath(req.input_data) THEN req.content ELSE "image", io)
         IN  /\ loc' = [loc EXCEPT !.exc = e,
                                    !.encoded = loc.input_type \in {"image", "pdf"}]
             /\ pc' = IF e = NoExc THEN "extractor_invoke" ELSE "idle"
    /\ UNCHANGED <<now, fs, stores, sql_expenses, nreq, req, resp, calls, hist, peer, disk, call>>

\* lines 81-83: the model call and the parse of its answer
ExtractInvoke ==
    /\ pc = "extractor_invoke"
    /\ calls' = [calls EXCEPT !.llm = @ + 1]
    /\ \/ \E t \in ExtractionTexts :
            loc' = IF ParseOk(t)
                   THEN [loc EXCEPT !.text = t, !.extracted_data = ParseValue(t)]
                   ELSE [loc EXCEPT !.text = t, !.exc = ParseError(t)]
       \/ \E e \in {"InvalidArgument", "ServiceUnavailable"} :
            loc' = [loc EXCEPT !.exc = Exc(e, FALSE, 0, "model call failed")]
    /\ pc' = "idle"
    /\ UNCHANGED <<now, fs, stores, sql_expenses, nreq, req, resp, hist, peer, disk, call>>

NextExtractor ==
    \/ CallExtractExpense
    \/ ExtractEncode
    \/ ExtractInvoke

SpecExtractor == InitExpenses /\ [][NextExtractor]_vars

(***************************************************************************)
(* database/supabase_client.py: user profiles                              *)
(***************************************************************************)
RECURSIVE SelectProfiles(_, _, _)
\* the rows of table[i..] of user_id, in table order
SelectProfiles(table, i, user_id) ==
    IF i > Len(table) THEN <<>>
    ELSE (IF table[i].user_id = user_id THEN <<table[i]>> ELSE <<>>)
         \o SelectProfiles(table, i + 1, user_id)

\* the try block of fetch_user_profile, lines 141-148: the first row of the
\* user, {} when there is none
fetch_user_profile_try(table, user_id, ok) ==
    IF ~ok THEN Tried("APIError", NoProfile)
    ELSE LET data == SelectProfiles(table, 1, user_id)
         IN  Tried("", IF Len(data) > 0 THEN Profile(TRUE, data[1]) ELSE NoProfile)

\* fetch_user_profile, lines 140-152: {} as well when the backend fails
fetch_user_profile_call(table, user_id, ok) ==
    AdapterExcept(fetch_user_profile_try(table, user_id, ok), NoProfile)

fetch_user_profile(table, user_id, ok) ==
    fetch_user_profile_call(table, user_id, ok).value

\* lines 166-170: {"user_id": user_id, "updated_date": now, **profile_data};
\* created_date = -1: the record has no such key
ProfileRecord(user_id, profile_data, t) ==
    [user_id |-> IF profile_data.user_id # "" THEN profile_data.user_id ELSE user_id,
     monthly_income |-> profile_data.monthly_income,
     updated_date |-> IF profile_data.updated_date # -1
                      THEN profile_data.updated_date ELSE t,
     created_date |-> profile_data.created_date]

\* lines 177-179: update(profile_record).eq("user_id", user_id) sets the
\* columns of the record in every row of user_id
UpdateProfiles(table, user_id, record) ==
    [i \in 1..Len(table) |->
        IF table[i].user_id = user_id
        THEN [user_id |-> record.user_id,
              monthly_income |-> record.monthly_income,
              updated_date |-> record.updated_date,
              created_date |-> IF record.created_date # -1
                               THEN record.created_date ELSE table[i].created_date]
        ELSE table[i]]

\* lines 182-185: created_date is stamped, then the record is inserted
InsertProfile(table, record, t) ==
    Append(table, [record EXCEPT !.created_date = t])

\* variant: one conditional write that looks at the table as it is now
UpsertWrite_Atomic(table, user_id, profile_data, existing, t) ==
    IF SelectProfiles(table, 1, user_id) # <<>>
    THEN UpdateProfiles(table, user_id, ProfileRecord(user_id, profile_data, t))
    ELSE InsertProfile(table, ProfileRecord(user_id, profile_data, t), t)

\* lines 175-185: the write of upsert_user_profile, existing the mapping
\* its existence check returned
UpsertWrite(table, user_id, profile_data, existing, t) ==
    IF existing.found
    THEN UpdateProfiles(table, user_id, ProfileRecord(user_id, profile_data, t))
    ELSE InsertProfile(table, ProfileRecord(user_id, profile_data, t), t)

UpsertPath(existing) == IF existing.found THEN "update" ELSE "insert"

\* upsert_user_profile, lines 165-196, as one call: the result and the
\* table after it. is_mapping: profile_data can be unpacked with **;
\* ok_read, ok_write: the backend answers the existence check and the write
upsert_user_profile_try(table, user_id, profile_data, is_mapping, ok_read, ok_write, t) ==
    IF ~is_mapping THEN Tried("TypeError", [result |-> NoResult, table |-> table])
    ELSE IF ~ok_write THEN Tried("APIError", [result |-> NoResult, table |-> table])
    ELSE Tried("", [result |-> Result(TRUE, 0, <<>>, ""),
                    table |-> UpsertWrite(table, user_id, profile_data,
                                  fetch_user_profile(table, user_id, ok_read), t)])

upsert_user_profile_call(table, user_id, profile_data, is_mapping, ok_read, ok_write, t) ==
    LET tried == upsert_user_profile_try(table, user_id, profile_data, is_mapping,
                                         ok_read, ok_write, t)
    IN  AdapterExcept(tried, [result |-> Result(FALSE, 0, <<>>, tried.raised),
                              table |-> table])

(***************************************************************************)
(* database/supabase_client.py: financial insights                         *)
(***************************************************************************)
\* lines 211-216
InsightsRecord(user_id, insights_data, t) ==
    [user_id |-> user_id, insights_data |-> json_dumps(insights_data),
     generated_date |-> t,
     insights_type |-> IF insights_data.intent = "" THEN "general"
                       ELSE insights_data.intent,
     saved |-> insights_data]

\* the try block of save_financial_insights, lines 211-225: .get on
\* anything but a mapping raises
save_financial_insights_try(user_id, insights_data, ok, t) ==
    IF ~JsonDumpable(insights_data) THEN Tried("TypeError", NoResult)
    ELSE IF ~insights_data.is_dict THEN Tried("AttributeError", NoResult)
    ELSE IF ~ok THEN Tried("APIError", NoResult)
    ELSE Tried("", Result(TRUE, 0, <<InsightsRecord(user_id, insights_data, t)>>, ""))

save_financial_insights_call(user_id, insights_data, ok, t) ==
    LET tried == save_financial_insights_try(user_id, insights_data, ok, t)
    IN  AdapterExcept(tried, Result(FALSE, 0, <<>>, tried.raised))

\* the rows the query of lines 245-250 selects; `if insights_type:` skips
\* the filter for None and for ""
InsightsOf(table, user_id, insights_type) ==
    {i \in 1..Len(table) :
        /\ table[i].user_id = user_id
        /\ insights_type # "" => table[i].insights_type = insights_type}

\* the try block of get_latest_insights, lines 245-259: the row of the
\* latest generated_date; tie: which of several rows of that date the
\* backend puts first
get_latest_insights_try(table, user_id, insights_type, ok, tie) ==
    IF ~ok THEN Tried("APIError", NoInsights)
    ELSE LET S == InsightsOf(table, user_id, insights_type)
             latest == {i \in S : \A j \in S :
                            table[j].generated_date <= table[i].generated_date}
         IN  IF S = {} THEN Tried("", NoInsights)
             ELSE LET insights ==
                          table[IF tie = "first"
                                THEN CHOOSE i \in latest : \A j \in latest : i <= j
                                ELSE CHOOSE i \in latest : \A j \in latest : i >= j]
                  IN  Tried("", Insights(TRUE,
                          [insights EXCEPT !.insights_data = json_loads(@)]))

get_latest_insights_call(table, user_id, insights_type, ok, tie) ==
    AdapterExcept(get_latest_insights_try(table, user_id, insights_type, ok, tie),
                  NoInsights)

(***************************************************************************)
(* api/main.py: GET /profile/{user_id} and PUT /profile/{user_id}          *)
(***************************************************************************)
DataPool ==
    { ProfileData(1, "", -1, -1), ProfileData(2, "", -1, -1),
      ProfileData(3, "u2", -1, -1), ProfileData(4, "", 9, 9) }

\* lines 303-308
get_user_profile ==
    \E u \in Users :
        Begin([NoReq EXCEPT !.ep = "GET /profile/{user_id}", !.user_id = u],
              "fetch_profile", InitLoc)

\* lines 309-314: `if not profile` raises the 404, which line 316 re-raises
FetchProfile ==
    /\ pc = "fetch_profile"
    /\ \E ok \in BOOLEAN :
         LET profile == fetch_user_profile(user_profiles, req.user_id, ok)
         IN  loc' = [loc EXCEPT !.profile = profile,
                                !.exc = IF ~profile.found
                                        THEN HTTPException(404, "User profile not found")
                                        ELSE NoExc,
                                !.returned = profile.found]
    /\ calls' = [calls EXCEPT !.db_read = @ + 1]
    /\ pc' = "respond_profile"
    /\ UNCHANGED <<now, fs, stores, sql_expenses, nreq, req, resp, hist, peer, disk, call>>

\* lines 321-326
update_user_profile ==
    \E u \in Users, d \in DataPool :
        Begin([NoReq EXCEPT !.ep = "PUT /profile/{user_id}", !.user_id = u,
                            !.profile_data = d],
              "upsert_check", InitLoc)

\* supabase_client.py 173: the existence check of upsert_user_profile
UpsertCheck ==
    /\ pc = "upsert_check"
    /\ \E ok \in BOOLEAN :
         loc' = [loc EXCEPT !.profile = fetch_user_profile(user_profiles, req.user_id, ok),
                            !.read_ok = ok]
    /\ calls' = [calls EXCEPT !.db_read = @ + 1]
    /\ pc' = "upsert_write"
    /\ UNCHANGED <<now, fs, stores, sql_expenses, nreq, req, resp, hist, peer, disk, call>>

\* supabase_client.py 175-196 and main.py 329-332
UpsertProfile ==
    /\ pc = "upsert_write"
    /\ \E ok \in BOOLEAN :
         /\ user_profiles' =
              IF ok
              THEN UpsertWrite(user_profiles, req.user_id, req.profile_data, loc.profile, now)
              ELSE user_profiles
         /\ loc' = [loc EXCEPT
                      !.path = UpsertPath(loc.profile),
                      !.save_result = Result(ok, 0, <<>>, IF ok THEN "" ELSE "backend"),
                      !.exc = IF ok THEN NoExc
                              ELSE HTTPException(500, "Failed to update profile"),
                      !.returned = ok]
         /\ hist' = [hist EXCEPT ![req.user_id] =
                        Append(@, [id |-> req.id, path |-> UpsertPath(loc.profile),
                                   success |-> ok,
                                   keyed |-> req.profile_data.user_id # "",
                                   read_ok |-> loc.read_ok,
                                   income |-> req.profile_data.monthly_income])]
    /\ calls' = [calls EXCEPT !.db_write = @ + 1]
    /\ pc' = "respond_profile"
    /\ UNCHANGED <<now, fs, expenses, financial_insights, sql_expenses, nreq, req,
                   resp, peer, disk, call>>

\* main.py 314, 332 and the HTTPException that leaves the handler
RespondProfile ==
    /\ pc = "respond_profile"
    /\ resp' = IF loc.returned
               THEN [NoResp EXCEPT !.status = 200, !.profile = loc.profile.row,
                                   !.user_id = req.user_id]
               ELSE ErrorResp(loc.exc.status, loc.exc.detail)
    /\ pc' = "idle"
    /\ UNCHANGED <<now, fs, stores, sql_expenses, nreq, req, loc, calls, hist, peer, disk, call>>

NextProfile ==
    \/ get_user_profile
    \/ FetchProfile
    \/ update_user_profile
    \/ UpsertCheck
    \/ UpsertProfile
    \/ RespondProfile
    \/ Tick

\* neither the working directory nor the analyzer's table play a part here
InitProfile == Init /\ fs = {} /\ sql_expenses = <<>>

SpecProfile == InitProfile /\ [][NextProfile]_vars

(***************************************************************************)
(* Two server processes (uvicorn workers, or two instances of the service)  *)
(* on the same Supabase project and the same working directory. Each runs  *)
(* its handlers one at a time; the operating system runs the two in any    *)
(* order. The variables pc, req, loc, resp and calls are those of the      *)
(* process that takes the next step, peer holds those of the other one.    *)
(***************************************************************************)
Switch ==
    /\ pc' = peer.pc
    /\ req' = peer.req
    /\ loc' = peer.loc
    /\ resp' = peer.resp
    /\ calls' = peer.calls
    /\ peer' = [pc |-> pc, req |-> req, loc |-> loc, resp |-> resp, calls |-> calls]
    /\ UNCHANGED <<now, fs, stores, sql_expenses, nreq, hist, disk, call>>

\* a profile that u1 already has, written by an earlier PUT /profile/u1
ExistingProfile ==
    [user_id |-> "u1", monthly_income |-> 9, updated_date |-> 0, created_date |-> 0]
ExistingUpsert ==
    [id |-> 0, path |-> "insert", success |-> TRUE, keyed |-> FALSE,
     read_ok |-> TRUE, income |-> 9]

InitProfileWorkers ==
    /\ now = 0
    /\ fs = {}
    /\ expenses = <<>>
    /\ \/ /\ user_profiles = <<>>
          /\ hist = [u \in Users |-> <<>>]
       \/ /\ user_profiles = <<ExistingProfile>>
          /\ hist = [u \in Users |-> IF u = "u1" THEN <<ExistingUpsert>> ELSE <<>>]
    /\ financial_insights = <<>>
    /\ sql_expenses = <<>>
    /\ nreq = 0
    /\ pc = "idle"
    /\ req = NoReq
    /\ loc = InitLoc
    /\ resp = NoResp
    /\ calls = NoCalls
    /\ peer = IdleProcess
    /\ disk = [n \in TempNames |-> NoBytes]
    /\ call = NoCall

\* the profile endpoints under both processes; the requests are those whose
\* data has no user_id key of its own, and the clock stands still
NextProfileWorkers ==
    \/ get_user_profile
    \/ FetchProfile
    \/ (update_user_profile /\ req'.profile_data.user_id = "")
    \/ UpsertCheck
    \/ UpsertProfile
    \/ RespondProfile
    \/ Switch

SpecProfileWorkers == InitProfileWorkers /\ [][NextProfileWorkers]_vars

\* POST /extract/{user_id} under both processes: uploads for u1 named r.jpg
\* or r.pdf, the model answering one of two arrays or failing
WorkerTexts ==
    { Text("json", FALSE, Val("array", a, FALSE)) :
        a \in {<<ItemCoffee>>, <<ItemCoffee, ItemBus>>} }

NextExtractWorkers ==
    \/ (extract_and_save_expense /\ req'.user_id = "u1"
            /\ req'.filename \in {"r.jpg", "r.pdf"})
    \/ SaveUpload
    \/ Encode
    \/ (Invoke /\ (pc' = "parse" => loc'.text \in WorkerTexts))
    \/ Parse
    \/ InnerExcept
    \/ InsertExpenses
    \/ ReturnExtraction
    \/ OuterExcept
    \/ Finally
    \/ RespondExtraction
    \/ Switch

InitExtractWorkers == Init /\ fs = {} /\ sql_expenses = <<>>

SpecExtractWorkers == InitExtractWorkers /\ [][NextExtractWorkers]_vars

(***************************************************************************)
(* pipeline/financial_insights.py                                          *)
(***************************************************************************)
\* what the model may answer to an analysis prompt: an object, an object
\* with an "error" key, an array, prose
InsightTexts ==
    { Text("json", FALSE, Val("object", <<>>, FALSE)),
      Text("json", FALSE, Val("object", <<>>, TRUE)),
      Text("json", FALSE, Val("array", <<>>, FALSE)),
      Text("prose", FALSE, NoVal) }

\* the outcome of self.llm.invoke: a text, or an exception of the client
Outcome(raised, text) == [raised |-> raised, text |-> text]
InsightOutcomes ==
    { Outcome(FALSE, t) : t \in InsightTexts } \cup { Outcome(TRUE, NoText) }

\* "...'-{} days')".format(days), lines 83-89: the characters that
\* replace the braces. An integer and a string of digits give the same
\* characters; any other string is copied as it is. int: they are the
\* digits of n; sql: they end the quoted argument and add a condition
FormatDays(days) ==
    IF days.k \in {"num", "numstr"}
    THEN [int |-> TRUE, n |-> days.n, sql |-> FALSE]
    ELSE [int |-> FALSE, n |-> 0, sql |-> days.k = "sql"]

\* fetch_user_expenses, lines 82-99: the rows of the query, [] on any error.
\* With digits the query selects the user's rows of the last n days; with
\* "... OR 1=1 --" its WHERE clause holds for every row of the table; with
\* any other text datetime() yields NULL and no row qualifies
sql_fetch_user_expenses(table, user_id, days, ok, t) ==
    IF ~ok THEN <<>>
    ELSE IF FormatDays(days).int
    THEN SelectExpenses(table, Len(table), user_id, t - FormatDays(days).n)
    ELSE IF FormatDays(days).sql
    THEN [i \in 1..Len(table) |-> table[Len(table) + 1 - i]]
    ELSE <<>>

\* lines 219-231, 293-305, 362-374: the try block around the model call.
\* The parsed value gets two keys assigned, which raises on anything but an
\* object; every exception becomes the mapping {"error": ..., "user_id": ...}
AnalyzerTry(kind, outcome) ==
    IF outcome.raised \/ ~ParseOk(outcome.text)
       \/ ParseValue(outcome.text).shape # "object"
    THEN Payload(kind, TRUE, "failed")
    ELSE Payload(kind, ParseValue(outcome.text).err,
                 IF ParseValue(outcome.text).err THEN "model" ELSE "")

\* analyze_comprehensive_insights, lines 145-146: TRUE when the analyzer
\* returns before it builds a prompt
InsightsNoData(exps) == exps = <<>>
\* generate_smart_budget (245-248) and detect_spending_anomalies (318-321)
\* go on to the prompt whatever was fetched
BudgetNoData(exps) == FALSE
AnomaliesNoData(recent, historical) == FALSE

NoDataPayload(kind) == Payload(kind, TRUE, "No expense data found for user")

\* the days of the analyzer's first fetch: lines 142, 245, 318
AnalyzerDays(kind, analysis_period) ==
    IF kind = "insights" THEN analysis_period
    ELSE IF kind = "budget" THEN 60 ELSE 30

ReturnsNoData(kind, recent, historical) ==
    IF kind = "insights" THEN InsightsNoData(recent)
    ELSE IF kind = "budget" THEN BudgetNoData(recent)
    ELSE AnomaliesNoData(recent, historical)

\* generate_financial_report, lines 388-389
ReportTypes == {"weekly", "monthly", "quarterly"}
PeriodDays(report_type) ==
    IF report_type = "weekly" THEN 7
    ELSE IF report_type = "quarterly" THEN 90 ELSE 30

(***************************************************************************)
(* api/main.py: GET /insights, /budget, /alerts and /report                *)
(***************************************************************************)
AnalyzerOf(ep) ==
    IF ep = "GET /insights/{user_id}" THEN "insights"
    ELSE IF ep = "GET /budget/{user_id}" THEN "budget"
    ELSE "anomalies"

\* lines 145-151, 161-167, 177-183
get_user_insights ==
    \E u \in Users, d \in Days :
        Begin([NoReq EXCEPT !.ep = "GET /insights/{user_id}", !.user_id = u, !.days = d],
              "analyze_fetch", [InitLoc EXCEPT !.analyzer = "insights"])

generate_user_budget ==
    \E u \in Users :
        Begin([NoReq EXCEPT !.ep = "GET /budget/{user_id}", !.user_id = u],
              "analyze_fetch", [InitLoc EXCEPT !.analyzer = "budget"])

get_spending_alerts ==
    \E u \in Users :
        Begin([NoReq EXCEPT !.ep = "GET /alerts/{user_id}", !.user_id = u],
              "analyze_fetch", [InitLoc EXCEPT !.analyzer = "anomalies"])

\* lines 193-194
get_financial_report ==
    \E u \in Users, t \in ReportTypes \cup {"yearly"} :
        Begin([NoReq EXCEPT !.ep = "GET /report/{user_id}", !.user_id = u,
                            !.report_type = t],
              "validate_report", InitLoc)

\* variant: every report type is let through
ValidReportType_Any(report_type) == TRUE

\* lines 198-199: the check of report_type, made outside the try block
ValidReportType(report_type) == report_type \in ReportTypes

ValidateReport ==
    /\ pc = "validate_report"
    /\ IF ValidReportType(req.report_type)
       THEN /\ loc' = [loc EXCEPT !.analyzer = "insights"]
            /\ pc' = "analyze_fetch"
       ELSE /\ loc' = [loc EXCEPT !.exc = HTTPException(400, "Invalid report type")]
            /\ pc' = "respond_insights"
    /\ UNCHANGED <<now, fs, stores, sql_expenses, nreq, req, resp, calls, hist, peer, disk, call>>

SetPayload(l, kind, payload) ==
    IF kind = "insights" THEN [l EXCEPT !.insights = payload]
    ELSE IF kind = "budget" THEN [l EXCEPT !.budget = payload]
    ELSE [l EXCEPT !.anomalies = payload]

\* where the caller goes on once analyzer `kind` has returned:
\* financial_insights.py 392-398 for the report, the handler's check else
AfterAnalyzer(ep, kind) ==
    IF ep = "GET /report/{user_id}" /\ kind # "anomalies"
    THEN "analyze_fetch" ELSE "check_payload"
NextAnalyzer(ep, kind) ==
    IF ep # "GET /report/{user_id}" THEN kind
    ELSE IF kind = "insights" THEN "budget" ELSE "anomalies"

\* the two reads an analyzer starts with (expenses and profile, or the 30
\* and the 90 days of expenses), and the early return of lines 145-146
AnalyzerFetch ==
    /\ pc = "analyze_fetch"
    /\ \E ok1 \in BOOLEAN, ok2 \in BOOLEAN :
         LET kind == loc.analyzer
             days == IF req.ep = "GET /report/{user_id}"
                     THEN AnalyzerDays(kind, PeriodDays(req.report_type))
                     ELSE AnalyzerDays(kind, req.days)
             recent == sql_fetch_user_expenses(sql_expenses, req.user_id, Num(days), ok1, now)
             historical == IF kind = "anomalies"
                           THEN sql_fetch_user_expenses(sql_expenses, req.user_id, Num(90), ok2, now)
                           ELSE <<>>
             l == [loc EXCEPT !.fetched = recent, !.historical = historical,
                              !.read_ok = ok1]
         IN  IF ReturnsNoData(kind, recent, historical)
             THEN /\ loc' = [SetPayload(l, kind, NoDataPayload(kind))
                               EXCEPT !.analyzer = NextAnalyzer(req.ep, kind)]
                  /\ pc' = AfterAnalyzer(req.ep, kind)
             ELSE /\ loc' = l
                  /\ pc' = "analyze_invoke"
    /\ calls' = [calls EXCEPT !.db_read = @ + 2]
    /\ UNCHANGED <<now, fs, stores, sql_expenses, nreq, req, resp, hist, peer, disk, call>>

\* the model call of the analyzer and what its try block makes of it
AnalyzerInvoke ==
    /\ pc = "analyze_invoke"
    /\ \E o \in InsightOutcomes :
         LET kind == loc.analyzer
         IN  /\ loc' = [SetPayload(loc, kind, AnalyzerTry(kind, o))
                          EXCEPT !.analyzer = NextAnalyzer(req.ep, kind),
                                 !.text = o.text]
             /\ pc' = AfterAnalyzer(req.ep, kind)
    /\ calls' = [calls EXCEPT !.llm = @ + 1]
    /\ UNCHANGED <<now, fs, stores, sql_expenses, nreq, req, resp, hist, peer, disk, call>>

\* main.py 158-159, 174-175, 190-191: `except Exception` also catches the
\* HTTPException raised inside the try block
AnalysisExcept(e) == HTTPException(500, "Error generating analysis")

\* main.py 153-156, 169-172, 185-188: the re-check of the payload; the
\* report (202-203) returns what it got
CheckPayload ==
    /\ pc = "check_payload"
    /\ LET payload == IF loc.analyzer = "insights" THEN loc.insights
                      ELSE IF loc.analyzer = "budget" THEN loc.budget
                      ELSE loc.anomalies
       IN  IF req.ep # "GET /report/{user_id}" /\ payload.has_error
           THEN loc' = [loc EXCEPT !.exc = AnalysisExcept(HTTPException(404, payload.error))]
           ELSE loc' = [loc EXCEPT !.returned = TRUE]
    /\ pc' = "respond_insights"
    /\ UNCHANGED <<now, fs, stores, sql_expenses, nreq, req, resp, calls, hist, peer, disk, call>>

RespondInsights ==
    /\ pc = "respond_insights"
    /\ resp' = IF loc.returned
               THEN [NoResp EXCEPT !.status = 200, !.user_id = req.user_id,
                        !.payload = IF req.ep = "GET /report/{user_id}"
                                    THEN Payload("report", FALSE, "")
                                    ELSE IF loc.analyzer = "insights" THEN loc.insights
                                    ELSE IF loc.analyzer = "budget" THEN loc.budget
                                    ELSE loc.anomalies]
               ELSE ErrorResp(loc.exc.status, loc.exc.detail)
    /\ pc' = "idle"
    /\ UNCHANGED <<now, fs, stores, sql_expenses, nreq, req, loc, calls, hist, peer, disk, call>>

NextInsights ==
    \/ get_user_insights
    \/ generate_user_budget
    \/ get_spending_alerts
    \/ get_financial_report
    \/ ValidateReport
    \/ AnalyzerFetch
    \/ AnalyzerInvoke
    \/ CheckPayload
    \/ RespondInsights
    \/ Tick

\* the working directory plays no part here
InitInsights == Init /\ fs = {}

SpecInsights == InitInsights /\ [][NextInsights]_vars

\* POST /extract/{user_id} and GET /insights/{user_id} side by side: the
\* endpoint that stores expenses and an endpoint that analyses them
NextExtractInsights ==
    \/ extract_and_save_expense
    \/ SaveUpload
    \/ Encode
    \/ Invoke
    \/ Parse
    \/ InnerExcept
    \/ InsertExpenses
    \/ ReturnExtraction
    \/ OuterExcept
    \/ Finally
    \/ RespondExtraction
    \/ get_user_insights
    \/ AnalyzerFetch
    \/ AnalyzerInvoke
    \/ CheckPayload
    \/ RespondInsights
    \/ Tick

SpecExtractInsights == InitInsights /\ [][NextExtractInsights]_vars

(***************************************************************************)
(* pipeline/nlp_chatbot.py and api/main.py: POST /chat                     *)
(***************************************************************************)
\* a decoded intent object: a Val with the two keys process_query reads
IntentVal(err, requires_data_fetch, suggested_analysis_period) ==
    [shape |-> "object", items |-> <<>>, err |-> err,
     requires_data_fetch |-> requires_data_fetch,
     suggested_analysis_period |-> suggested_analysis_period]

\* what the model may answer to the classification prompt
IntentTexts ==
    { Text("json", FALSE, IntentVal(FALSE, f, d)) :
        f \in BOOLEAN, d \in {Num(1), Num(30), Str(30), SqlStr, Absent} }
    \cup { Text("json", FALSE, IntentVal(TRUE, FALSE, Num(30))),
           Text("fenced", FALSE, IntentVal(FALSE, TRUE, Num(30))),
           Text("json", FALSE, Val("array", <<>>, FALSE)),
           Text("prose", FALSE, NoVal) }

IntentOutcomes ==
    { Outcome(FALSE, t) : t \in IntentTexts } \cup { Outcome(TRUE, NoText) }

\* classify_intent, nlp_chatbot.py 121-137: the parsed object with two keys
\* added, or the mapping with the "error" key for any exception
classify_intent(outcome) ==
    IF outcome.raised \/ ~ParseOk(outcome.text)
       \/ ParseValue(outcome.text).shape # "object"
    THEN Intent(TRUE, FALSE, Absent)
    ELSE LET v == ParseValue(outcome.text)
         IN  Intent(v.err, v.requires_data_fetch, v.suggested_analysis_period)

\* generate_contextual_response, lines 260-285
generate_contextual_response(outcome) ==
    IF outcome.raised \/ ~ParseOk(outcome.text)
       \/ ParseValue(outcome.text).shape # "object"
    THEN Payload("chat", TRUE, "Response generation failed")
    ELSE Payload("chat", ParseValue(outcome.text).err,
                 IF ParseValue(outcome.text).err THEN "model" ELSE "")

\* main.py 212-217
financial_chat ==
    \E u \in Users :
        Begin([NoReq EXCEPT !.ep = "POST /chat", !.user_id = u],
              "classify", InitLoc)

\* variant: the user's data is read for every classified intent
AfterClassify_AlwaysFetch(intent_data) ==
    IF intent_data.has_error THEN "check_chat" ELSE "chat_fetch"

\* process_query, lines 154-159: an intent with an "error" key is returned,
\* the data is fetched for a truthy requires_data_fetch
AfterClassify(intent_data) ==
    IF intent_data.has_error THEN "check_chat"
    ELSE IF intent_data.requires_data_fetch THEN "chat_fetch"
    ELSE "chat_respond"

\* process_query, lines 152-159: the classification and where it leads
ClassifyIntent ==
    /\ pc = "classify"
    /\ \E o \in IntentOutcomes :
         LET intent_data == classify_intent(o)
         IN  /\ loc' = [loc EXCEPT
                          !.intent = intent_data,
                          !.text = o.text,
                          !.response = IF intent_data.has_error
                                       THEN Payload("intent", TRUE, "Intent classification failed")
                                       ELSE NoPayload]
             /\ pc' = AfterClassify(intent_data)
    /\ calls' = [calls EXCEPT !.llm = @ + 1]
    /\ UNCHANGED <<now, fs, stores, sql_expenses, nreq, req, resp, hist, peer, disk, call>>

\* line 160: intent_data.get("suggested_analysis_period", 30)
AnalysisPeriod(intent_data) ==
    IF intent_data.suggested_analysis_period = Absent THEN Num(30)
    ELSE intent_data.suggested_analysis_period

\* lines 160-168: the analyzer's two reads; query: what was formatted into
\* the text of the expense query
ChatFetch ==
    /\ pc = "chat_fetch"
    /\ \E ok \in BOOLEAN :
         LET analysis_period == AnalysisPeriod(loc.intent)
         IN  loc' = [loc EXCEPT
                       !.fetched = sql_fetch_user_expenses(sql_expenses, req.user_id,
                                        analysis_period, ok, now),
                       !.query = FormatDays(analysis_period),
                       !.read_ok = ok]
    /\ calls' = [calls EXCEPT !.db_read = @ + 2]
    /\ pc' = "chat_respond"
    /\ UNCHANGED <<now, fs, stores, sql_expenses, nreq, req, resp, hist, peer, disk, call>>

\* lines 171-175
ChatRespond ==
    /\ pc = "chat_respond"
    /\ \E o \in InsightOutcomes :
         loc' = [loc EXCEPT !.response = generate_contextual_response(o),
                            !.text = o.text]
    /\ calls' = [calls EXCEPT !.llm = @ + 1]
    /\ pc' = "check_chat"
    /\ UNCHANGED <<now, fs, stores, sql_expenses, nreq, req, resp, hist, peer, disk, call>>

\* main.py 228-229: `except Exception` is the only clause of the handler, and
\* the HTTPException of line 224 is raised inside its try block
ChatExcept(e) == HTTPException(500, "Chat processing failed")

\* main.py 223-226
CheckChat ==
    /\ pc = "check_chat"
    /\ IF loc.response.has_error
       THEN loc' = [loc EXCEPT !.exc = ChatExcept(HTTPException(400, loc.response.error))]
       ELSE loc' = [loc EXCEPT !.returned = TRUE]
    /\ pc' = "respond_chat"
    /\ UNCHANGED <<now, fs, stores, sql_expenses, nreq, req, resp, calls, hist, peer, disk, call>>

RespondChat ==
    /\ pc = "respond_chat"
    /\ resp' = IF loc.returned
               THEN [NoResp EXCEPT !.status = 200, !.user_id = req.user_id,
                                   !.payload = loc.response]
               ELSE ErrorResp(loc.exc.status, loc.exc.detail)
    /\ pc' = "idle"
    /\ UNCHANGED <<now, fs, stores, sql_expenses, nreq, req, loc, calls, hist, peer, disk, call>>

NextChat ==
    \/ financial_chat
    \/ ClassifyIntent
    \/ ChatFetch
    \/ ChatRespond
    \/ CheckChat
    \/ RespondChat
    \/ Tick

InitChat == Init /\ fs = {}

SpecChat == InitChat /\ [][NextChat]_vars

(***************************************************************************)
(* database/supabase_client.py: the operations called one by one, with any  *)
(* argument and any outcome of the backend                                 *)
(***************************************************************************)
\* the `expenses` argument: arrays of the model, an object, a scalar
InsertArgs ==
    { Val("array", a, FALSE) :
        a \in {<<>>, <<ItemCoffee, ItemBus>>, <<ItemNoName>>,
               <<ItemCoffee, ItemBadAmount>>, <<ItemNullAmount>>} }
    \cup { Val("object", <<>>, FALSE), Val("scalar", <<>>, FALSE) }

\* the `days` argument: integers and a string
DaysArgs == {Num(0), Num(30), BadStr}

InsightsArgs ==
    { InsightsData(TRUE, "budget_planning", "str"), InsightsData(TRUE, "", "str"),
      InsightsData(TRUE, "", "int"), InsightsData(TRUE, "", "obj"), NoInsightsData }

\* a call is counted as a request; it is made while no handler is in flight
AdapterCall(c) ==
    /\ pc = "idle"
    /\ nreq < MaxRequests
    /\ nreq' = nreq + 1
    /\ call' = [c EXCEPT !.t = now]
    /\ UNCHANGED <<now, fs, sql_expenses, pc, req, loc, resp, calls, hist, peer, disk>>

CallInsertExpenses ==
    \E u \in Users, data \in InsertArgs, ok \in BOOLEAN :
        LET out == insert_expenses_call(u, data, ok, now)
        IN  /\ expenses' = IF out.raised = "" /\ out.value.success
                           THEN expenses \o out.value.data ELSE expenses
            /\ AdapterCall([NoCall EXCEPT
                    !.op = "insert_expenses", !.user_id = u, !.data = data,
                    !.ok = ok, !.before = expenses,
                    !.inner = insert_expenses_try(u, data, ok, now).raised,
                    !.raised = out.raised, !.result = out.value])
            /\ UNCHANGED <<user_profiles, financial_insights>>

CallFetchExpenses ==
    \E u \in Users, days \in DaysArgs, ok \in BOOLEAN :
        LET out == fetch_user_expenses_call(expenses, u, days, ok, now)
        IN  /\ AdapterCall([NoCall EXCEPT
                    !.op = "fetch_user_expenses", !.user_id = u, !.days = days,
                    !.ok = ok, !.before = expenses,
                    !.inner = fetch_user_expenses_try(expenses, u, days, ok, now).raised,
                    !.raised = out.raised, !.rows = out.value])
            /\ UNCHANGED stores

CallExpenseSummary ==
    \E u \in Users, days \in {0, 30}, ok \in BOOLEAN :
        LET out == get_expense_summary_call(expenses, u, days, ok, now)
        IN  /\ AdapterCall([NoCall EXCEPT
                    !.op = "get_expense_summary", !.user_id = u, !.days = Num(days),
                    !.ok = ok, !.before = expenses,
                    !.inner = get_expense_summary_try(expenses, u, days, ok, now).raised,
                    !.raised = out.raised, !.summary = out.value])
            /\ UNCHANGED stores

CallFetchProfile ==
    \E u \in Users, ok \in BOOLEAN :
        LET out == fetch_user_profile_call(user_profiles, u, ok)
        IN  /\ AdapterCall([NoCall EXCEPT
                    !.op = "fetch_user_profile", !.user_id = u, !.ok = ok,
                    !.before = user_profiles,
                    !.inner = fetch_user_profile_try(user_profiles, u, ok).raised,
                    !.raised = out.raised, !.profile = out.value])
            /\ UNCHANGED stores

\* profile_data = NoData stands for an argument that is no mapping
CallUpsertProfile ==
    \E u \in Users, d \in DataPool \cup {NoData}, ok \in BOOLEAN :
        LET out == upsert_user_profile_call(user_profiles, u, d, d # NoData, TRUE, ok, now)
        IN  /\ user_profiles' = out.value.table
            /\ AdapterCall([NoCall EXCEPT
                    !.op = "upsert_user_profile", !.user_id = u, !.profile_data = d,
                    !.ok = ok, !.before = user_profiles,
                    !.inner = upsert_user_profile_try(user_profiles, u, d, d # NoData,
                                                      TRUE, ok, now).raised,
                    !.raised = out.raised, !.result = out.value.result])
            /\ UNCHANGED <<expenses, financial_insights>>

CallSaveInsights ==
    \E u \in Users, d \in InsightsArgs, ok \in BOOLEAN :
        LET out == save_financial_insights_call(u, d, ok, now)
        IN  /\ financial_insights' =
                  IF out.raised = "" /\ out.value.success
                  THEN financial_insights \o out.value.data ELSE financial_insights
            /\ AdapterCall([NoCall EXCEPT
                    !.op = "save_financial_insights", !.user_id = u,
                    !.insights_data = d, !.ok = ok, !.before = financial_insights,
                    !.inner = save_financial_insights_try(u, d, ok, now).raised,
                    !.raised = out.raised, !.result = out.value])
            /\ UNCHANGED <<expenses, user_profiles>>

CallLatestInsights ==
    \E u \in Users, ty \in {"", "general", "budget_planning"}, ok \in BOOLEAN,
       tie \in {"first", "last"} :
        LET out == get_latest_insights_call(financial_insights, u, ty, ok, tie)
        IN  /\ AdapterCall([NoCall EXCEPT
                    !.op = "get_latest_insights", !.user_id = u,
                    !.insights_type = ty, !.ok = ok, !.before = financial_insights,
                    !.inner = get_latest_insights_try(financial_insights, u, ty, ok, tie).raised,
                    !.raised = out.raised, !.insights = out.value])
            /\ UNCHANGED stores

NextAdapter ==
    \/ CallInsertExpenses
    \/ CallFetchExpenses
    \/ CallExpenseSummary
    \/ CallFetchProfile
    \/ CallUpsertProfile
    \/ CallSaveInsights
    \/ CallLatestInsights
    \/ Tick

InitAdapter == Init /\ fs = {} /\ sql_expenses = <<>>

SpecAdapter == InitAdapter /\ [][NextAdapter]_vars

(***************************************************************************)
(* The whole service                                                       *)
(***************************************************************************)
Next ==
    NextExpenses \/ NextExtractor \/ NextProfile \/ NextInsights \/ NextChat
        \/ NextAdapter

Spec == Init /\ [][Next]_vars

(***************************************************************************)
(* Properties                                                              *)
(***************************************************************************)
Done(ep) == pc = "idle" /\ req.ep = ep /\ resp.status # 0
DoneIn(eps) == pc = "idle" /\ req.ep \in eps /\ resp.status # 0

AnalysisEndpoints ==
    {"GET /insights/{user_id}", "GET /budget/{user_id}", "GET /alerts/{user_id}"}

\* the payload the analyzer handed to the handler of an analysis endpoint
HandlerPayload ==
    IF req.ep = "GET /insights/{user_id}" THEN loc.insights
    ELSE IF req.ep = "GET /budget/{user_id}" THEN loc.budget
    ELSE loc.anomalies

\* C1: on both extraction endpoints a model text that is not valid JSON
\* ends the request with 400 and the receipt message, never with 500.
C1_ProseIs400 ==
    (DoneIn(ExtractEndpoints) /\ loc.text.form = "prose")
        => (resp.status = 400 /\ resp.detail = ReceiptMessage)

\* C2: on GET /insights, /budget and /alerts a payload with an "error" key
\* is answered with 404 and that error as detail.
C2_ErrorPayloadIs404 ==
    (DoneIn(AnalysisEndpoints) /\ HandlerPayload.has_error)
        => (resp.status = 404 /\ resp.detail = HandlerPayload.error)

\* C3: each of the three analyzers returns the no-expense-data error
\* payload whenever the expense list it fetched is empty.
C3_NoDataPayload ==
    (/\ req.ep \in AnalysisEndpoints
     /\ pc \in {"check_payload", "respond_insights", "idle"}
     /\ loc.fetched = <<>> /\ loc.historical = <<>>)
        => HandlerPayload = NoDataPayload(AnalyzerOf(req.ep))

\* C4: GET /report with a report_type outside weekly, monthly, quarterly
\* is answered 400 and the request makes no model invocation and no
\* database read or write.
C4_BadReportType400 ==
    (req.ep = "GET /report/{user_id}"
     /\ req.report_type \notin {"weekly", "monthly", "quarterly"})
        => /\ calls.llm = 0 /\ calls.db_read = 0 /\ calls.db_write = 0
           /\ pc \in {"validate_report", "respond_insights", "idle"}
           /\ pc = "idle" => (resp.status = 400 /\ resp.detail = "Invalid report type")

C4_Witness ==
    Done("GET /report/{user_id}") /\ req.report_type = "yearly" /\ resp.status = 400

\* C5: once the handler of an extraction endpoint has completed, with a
\* result, a 400 or a 500 from any step, the temp file named from the
\* uploaded filename does not exist.
C5_TempFileRemoved ==
    (req.ep \in ExtractEndpoints /\ pc \in {"respond_extraction", "idle"})
        => TempName(req.filename) \notin fs

\* a request that failed at the database insert, the upload written before
C5_Witness ==
    /\ Done("POST /extract/{user_id}")
    /\ resp.status = 500
    /\ calls.db_write = 1
    /\ TempName(req.filename) \notin fs

ProfileCount(u) ==
    Cardinality({i \in 1..Len(user_profiles) : user_profiles[i].user_id = u})

\* C6: for a user without a stored profile, two upsert_user_profile calls
\* one after the other (both reporting success, their data without a
\* user_id key) leave exactly one profile of that user: the first inserts,
\* the second updates.
C6_TwoUpsertsOneProfile ==
    \A u \in Users :
        (/\ Len(hist[u]) = 2
         /\ hist[u][1].success /\ hist[u][2].success
         /\ ~hist[u][1].keyed /\ ~hist[u][2].keyed)
            => /\ ProfileCount(u) = 1
               /\ hist[u][1].path = "insert"
               /\ hist[u][2].path = "update"

RECURSIVE SumOfIndices(_, _)
SumOfIndices(exps, S) ==
    IF S = {} THEN 0
    ELSE LET i == CHOOSE x \in S : TRUE
         IN  exps[i].amount + SumOfIndices(exps, S \ {i})

IndicesOf(exps, c) == {i \in 1..Len(exps) : exps[i].category = c}

SummaryMatches(s, exps) ==
    /\ s.total = SumOfIndices(exps, 1..Len(exps))
    /\ s.count = Len(exps)
    /\ DOMAIN s.categories = {exps[i].category : i \in 1..Len(exps)}
    /\ \A c \in DOMAIN s.categories :
         /\ s.categories[c].amount = SumOfIndices(exps, IndicesOf(exps, c))
         /\ s.categories[c].count = Cardinality(IndicesOf(exps, c))
    /\ exps = <<>> => s = [total |-> 0, count |-> 0, categories |-> <<>>, period_days |-> -1]

C8_SavedOnlyIfInserted ==
    req.ep = "POST /extract/{user_id}" =>
        /\ resp.saved_to_database =>
             /\ loc.save_result.success
             /\ loc.extracted_data = loc.text.val
             /\ loc.save_result.inserted_count = Len(loc.extracted_data.items)
             /\ \A i \in 1..Len(loc.extracted_data.items) :
                  /\ loc.save_result.data[i].user_id = req.user_id
                  /\ loc.save_result.data[i].expence_name
                       = loc.extracted_data.items[i].expence_name
        /\ loc.extracted_data = NoVal => calls.db_write = 0
        /\ (pc = "idle" /\ calls.db_write = 1 /\ ~loc.save_result.success)
             => (resp.status = 500 /\ ~resp.saved_to_database)
        /\ calls.db_write <= 1

C8_Witness ==
    /\ Done("POST /extract/{user_id}")
    /\ resp.saved_to_database
    /\ Len(resp.extracted_data) = 2

C10_EmptyIffNoProfile ==
    (req.ep = "GET /profile/{user_id}" /\ pc \in {"respond_profile", "idle"})
        => /\ loc.profile.found <=> ProfileCount(req.user_id) > 0
           /\ loc.profile.found => loc.profile.row.user_id = req.user_id
           /\ (pc = "idle" /\ resp.status = 404) => ProfileCount(req.user_id) = 0


\* C11: POST /chat answers 400, with the error text as detail, whenever
\* process_query returned a mapping with an "error" key
C11_ChatErrorIs400 ==
    (Done("POST /chat") /\ loc.response.has_error)
        => (resp.status = 400 /\ resp.detail = loc.response.error)

\* C12: when the model returns valid JSON whose top level is no array (an
\* object, a scalar), both extraction endpoints answer 400
C12_NonArrayIs400 ==
    (DoneIn(ExtractEndpoints) /\ ParseOk(loc.text)
        /\ ParseValue(loc.text).shape # "array")
        => resp.status = 400

C13_OtherReached ==
    /\ Done("POST /extract/{user_id}")
    /\ loc.cause.type = "ServiceUnavailable"
    /\ resp.status = 500

FailureResultOps == {"insert_expenses", "upsert_user_profile", "save_financial_insights"}

C15_SummaryErrorOnReadFailure ==
    (call.op = "get_expense_summary" /\ ~call.ok)
        => "error" \in DOMAIN call.summary

\* C16: insert_expenses is all or nothing: on success inserted_count is the
\* length of the input and every input expense is stored once, in order,
\* with the user_id and the time of the call; otherwise, and always when an
\* element has a non-numeric or null amount, the table is as it was
C16_InsertAllOrNothing ==
    call.op = "insert_expenses"
        => LET items == call.data.items
               n == Len(call.before)
           IN  IF call.result.success
               THEN /\ call.data.shape = "array"
                    /\ \A i \in 1..Len(items) : items[i].amount.k \notin {"badstr", "null"}
                    /\ call.result.inserted_count = Len(items)
                    /\ Len(expenses) = n + Len(items)
                    /\ \A i \in 1..n : expenses[i] = call.before[i]
                    /\ \A i \in 1..Len(items) :
                          /\ expenses[n + i].user_id = call.user_id
                          /\ expenses[n + i].created_date = call.t
                          /\ expenses[n + i].bill_no = items[i].bill_no
                          /\ expenses[n + i].category = items[i].category
                          /\ expenses[n + i].mode = items[i].mode
                          /\ items[i].amount.k \in {"num", "numstr"}
                                => expenses[n + i].amount = items[i].amount.n
               ELSE expenses = call.before

\* an array whose second element has a non-numeric amount, offered to a
\* backend that would accept it, after an earlier insert
C16_Witness ==
    /\ call.op = "insert_expenses"
    /\ call.data.items = <<ItemCoffee, ItemBadAmount>>
    /\ call.ok
    /\ ~call.result.success
    /\ Len(call.before) = 2
    /\ expenses = call.before

\* the other branch of C16: two expenses stored by one call
C16_SuccessReached ==
    /\ call.op = "insert_expenses"
    /\ call.result.success
    /\ call.result.inserted_count = 2
    /\ Len(expenses) = Len(call.before) + 2

FiveFields(e) ==
    /\ ~e.extra
    /\ "absent" \notin {e.bill_no, e.expence_name, e.category, e.mode}
    /\ e.amount.k # "absent"

\* C17: every expense extract_expense returns has exactly the five expense
\* fields and one of the 20 categories, and so has every row stored through
\* POST /extract/{user_id}
C17_FiveFieldsFixedCategory ==
    /\ (req.ep \in ExtractEndpoints /\ loc.extracted_data.shape = "array")
          => \A i \in 1..Len(loc.extracted_data.items) :
                /\ FiveFields(loc.extracted_data.items[i])
                /\ loc.extracted_data.items[i].category \in Categories
    /\ \A i \in 1..Len(expenses) : expenses[i].category \in Categories

\* the stored half of C17 alone
C17_StoredCategories ==
    \A i \in 1..Len(expenses) : expenses[i].category \in Categories

NoKeyed == \A u \in Users : \A i \in 1..Len(hist[u]) : ~hist[u][i].keyed
Inserts(u) == {i \in 1..Len(hist[u]) : hist[u][i].success /\ hist[u][i].path = "insert"}
Writes(u) == {i \in 1..Len(hist[u]) : hist[u][i].success}
LastWrite(u) == CHOOSE i \in Writes(u) : \A j \in Writes(u) : j <= i

\* C18: upsert_user_profile writes what its existence check decided, not
\* what the table holds at the time of the write. Every call that saw no
\* profile inserts a row of its own, so two calls that both saw none leave
\* two rows of one user_id; a call that saw a profile overwrites the row
\* with its data whatever another call has written since
C18_CheckThenWrite ==
    NoKeyed
        => \A u \in Users :
              /\ ProfileCount(u) = Cardinality(Inserts(u))
              /\ Writes(u) # {}
                    => LET w == hist[u][LastWrite(u)]
                       IN  /\ \E i \in 1..Len(user_profiles) :
                                 /\ user_profiles[i].user_id = u
                                 /\ user_profiles[i].monthly_income = w.income
                           /\ w.path = "update"
                                 => \A i \in 1..Len(user_profiles) :
                                        user_profiles[i].user_id = u
                                            => user_profiles[i].monthly_income = w.income

\* two calls for one user, each with a working existence check that saw no
\* profile, both inserted: two rows
C18_Witness ==
    \E u \in Users :
        /\ Len(hist[u]) = 2
        /\ \A i \in 1..2 : /\ hist[u][i].path = "insert"
                            /\ hist[u][i].success
                            /\ hist[u][i].read_ok
                            /\ ~hist[u][i].keyed
        /\ ProfileCount(u) = 2

\* the lost update of C18: of two updates of an existing profile the one
\* that arrived first wrote last, and the row holds its income
C18_LostUpdateReached ==
    /\ Len(hist["u1"]) = 3
    /\ \A i \in 2..3 : /\ hist["u1"][i].path = "update"
                        /\ hist["u1"][i].success
                        /\ hist["u1"][i].read_ok
                        /\ ~hist["u1"][i].keyed
    /\ hist["u1"][2].id > hist["u1"][3].id
    /\ hist["u1"][2].income # hist["u1"][3].income
    /\ ProfileCount("u1") = 1
    /\ \A i \in 1..Len(user_profiles) :
          user_profiles[i].monthly_income = hist["u1"][3].income

\* the process that takes the next step, as a record like peer
Running == [pc |-> pc, req |-> req, loc |-> loc, resp |-> resp, calls |-> calls]

\* what a request has sent to the model are the bytes of its own upload, and
\* it has not failed for want of its temp file
OwnUpload(p) ==
    p.req.ep = "POST /extract/{user_id}"
        => /\ p.loc.media \in {0, p.req.id}
           /\ p.loc.exc.type # "FileNotFoundError"
           /\ p.loc.cause.type # "FileNotFoundError"

\* C19: concurrent POST /extract/{user_id} calls for one user are
\* independent under every interleaving, whatever the uploads are called:
\* each request extracts, returns and stores the expenses of its own upload
\* and none fails because of the other
C19_ConcurrentExtractsIndependent == OwnUpload(Running) /\ OwnUpload(peer)

\* the handler in flight has called the model and the model has not answered
AwaitsModel == pc \in {"invoke", "analyze_invoke", "classify", "chat_respond"}

\* the event loop starts the handler of another request
StartsHandler ==
    \/ extract_and_save_expense
    \/ extract_expense_only
    \/ get_user_expenses
    \/ get_user_profile
    \/ get_user_insights

\* C20: a slow model response blocks only the request that issued it: while
\* a handler waits for the model and further requests are to come, the
\* handler of another request can be started
C20_SlowModelBlocksOnlyItsRequest ==
    (AwaitsModel /\ nreq < MaxRequests) => ENABLED StartsHandler

\* C21: on the insight and chat flows a model output that cannot be parsed
\* as JSON reaches the client as an "error" field inside the body of a
\* successful response, not as an HTTP error status
C21_UnparsableIsBodyError ==
    (DoneIn(AnalysisEndpoints \cup {"POST /chat"}) /\ calls.llm > 0
        /\ loc.text.form = "prose")
        => (resp.status = 200 /\ resp.payload.has_error)

\* the steps of an extraction handler in the order of the code
StepRank(p) ==
    CASE p = "save_upload" -> 1
      [] p = "encode" -> 2
      [] p = "invoke" -> 3
      [] p = "parse" -> 4
      [] p = "insert" -> 5
      [] p = "return" -> 6
      [] p = "inner_except" -> 7
      [] p = "outer_except" -> 8
      [] p = "finally" -> 9
      [] p = "respond_extraction" -> 10
      [] OTHER -> 11

\* a step of the extraction request has failed
ExtractionFailed ==
    \/ loc.exc # NoExc
    \/ loc.cause # NoExc
    \/ (calls.db_write > 0 /\ ~loc.save_result.success)

\* C22: no step is retried: an extraction request invokes the model at most
\* once and calls insert_expenses at most once, every step of its handler
\* is later in the code than the one before, and after a failure of any
\* step the request ends with an error response
C22_NoRetry ==
    /\ [](req.ep \in ExtractEndpoints => (calls.llm <= 1 /\ calls.db_write <= 1))
    /\ [][(req.ep \in ExtractEndpoints /\ pc # "idle")
            => StepRank(pc') > StepRank(pc)]_vars
    /\ []((DoneIn(ExtractEndpoints) /\ ExtractionFailed) => resp.status >= 400)

\* a transport error of the model client: one invocation, no insert, 500
C22_Witness ==
    /\ Done("POST /extract/{user_id}")
    /\ loc.cause.type = "ServiceUnavailable"
    /\ calls.llm = 1
    /\ calls.db_write = 0
    /\ resp.status = 500
    /\ expenses = <<>>

\* the other failure of C22: the insert failed after one invocation
C22_InsertFailedReached ==
    /\ Done("POST /extract/{user_id}")
    /\ calls.llm = 1
    /\ calls.db_write = 1
    /\ ~loc.save_result.success
    /\ resp.status = 500

\* the row of table saved last for user_id and, unless it is "", insights_type
LastSaved(table, user_id, insights_type) ==
    LET S == InsightsOf(table, user_id, insights_type)
    IN  table[CHOOSE i \in S : \A j \in S : j <= i]

\* C23: after any sequence of save_financial_insights calls,
\* get_latest_insights returns the record saved last for the user and the
\* insights_type (for the user alone when the type is omitted), its payload
\* decoded to the value that was saved, the type of a record being its
\* response_metadata.intent or "general"; it returns the empty mapping when
\* no record matches
C23_LatestInsightsRoundTrip ==
    call.op = "get_latest_insights"
        => IF InsightsOf(call.before, call.user_id, call.insights_type) = {}
           THEN ~call.insights.found
           ELSE LET last == LastSaved(call.before, call.user_id, call.insights_type)
                IN  /\ call.insights.found
                    /\ call.insights.row.user_id = call.user_id
                    /\ call.insights.row.generated_date = last.generated_date
                    /\ call.insights.row.insights_type = last.insights_type
                    /\ call.insights.row.insights_type
                          = (IF last.saved.intent = "" THEN "general"
                             ELSE last.saved.intent)
                    /\ call.insights.row.insights_data = last.saved

\* the rows of the profile table an upsert call for `call.user_id` wrote:
\* the rows of that user on the update path, the appended row otherwise
WrittenRows ==
    LET U == {i \in 1..Len(call.before) : call.before[i].user_id = call.user_id}
    IN  IF U # {} THEN U ELSE {Len(call.before) + 1}

\* C24: a successful upsert_user_profile stamps the record it writes with
\* the time of the call, whatever the profile data holds: updated_date on
\* the update path, created_date and updated_date on the insert path
C24_UpsertStampsNow ==
    (call.op = "upsert_user_profile" /\ call.result.success)
        => /\ WrittenRows \subseteq 1..Len(user_profiles)
           /\ \A i \in WrittenRows :
                 /\ user_profiles[i].updated_date = call.t
                 /\ i > Len(call.before) => user_profiles[i].created_date = call.t

\* C25: extract_expense takes the explicit input_type when one is given;
\* otherwise "pdf" for a path whose guessed MIME type is application/pdf and
\* "image" for every other path and every input that is no path; with an
\* explicit type that is neither "image" nor "pdf" it fails with the
\* ValueError of the unsupported type before any media is encoded and
\* before the model is invoked
C25_InputTypeResolution ==
    req.ep = "extract_expense"
        => /\ loc.input_type =
                 (IF req.input_type # "none" THEN req.input_type
                  ELSE IF IsPath(req.input_data)
                          /\ guess_type(req.input_data) = "application/pdf"
                  THEN "pdf" ELSE "image")
           /\ req.input_type \notin {"none", "image", "pdf"}
                 => /\ ~loc.encoded
                    /\ calls.llm = 0
                    /\ pc \in {"extractor_encode", "idle"}
                    /\ pc = "idle"
                          => /\ loc.exc.type = "ValueError"
                             /\ loc.exc.detail = "Invalid input_type. Use 'image' or 'pdf'."

\* a call with the explicit type "docx" on a PDF path has failed
C25_Witness ==
    /\ req.ep = "extract_expense"
    /\ pc = "idle"
    /\ req.input_type = "docx"
    /\ req.input_data = "temp_r.pdf"
    /\ loc.exc.type = "ValueError"
    /\ ~loc.encoded
    /\ calls.llm = 0

\* the inference of C25: a PDF path without a type, bytes without a type
C25_GuessedReached ==
    /\ req.ep = "extract_expense"
    /\ pc = "idle"
    /\ req.input_type = "none"
    /\ \/ req.input_data = "temp_r.pdf" /\ loc.input_type = "pdf"
       \/ req.input_data = "<bytes>" /\ loc.input_type = "image"
    /\ loc.encoded
    /\ calls.llm = 1

\* the steps of process_query in the order of the code
ChatRank(p) ==
    CASE p = "classify" -> 1
      [] p = "chat_fetch" -> 2
      [] p = "chat_respond" -> 3
      [] p = "check_chat" -> 4
      [] p = "respond_chat" -> 5
      [] OTHER -> 6

\* C26: process_query classifies the intent, then reads the user's data if
\* the intent asks for it, then generates the response, in that order: an
\* error payload of the classification is returned as it is, with no
\* database read and no second model invocation; expenses and profile are
\* read only for an intent with a truthy requires_data_fetch; a call makes
\* at most two model invocations
C26_ProcessQueryOrder ==
    /\ [](req.ep = "POST /chat" =>
            /\ calls.llm <= 2
            /\ calls.db_read \in {0, 2}
            /\ (pc # "classify" /\ loc.intent.has_error)
                  => /\ calls.llm = 1
                     /\ calls.db_read = 0
                     /\ loc.response.kind = "intent"
                     /\ loc.response.has_error
            /\ calls.db_read > 0
                  => /\ loc.intent.requires_data_fetch
                     /\ ~loc.intent.has_error
                     /\ calls.llm >= 1
            /\ calls.llm = 2
                  => (loc.intent.requires_data_fetch <=> calls.db_read = 2))
    /\ [][(req.ep = "POST /chat" /\ pc # "idle")
            => ChatRank(pc') > ChatRank(pc)]_vars

\* a classification that failed: one invocation, nothing read
C26_Witness ==
    /\ Done("POST /chat")
    /\ loc.intent.has_error
    /\ loc.text.form = "prose"
    /\ calls.llm = 1
    /\ calls.db_read = 0

\* the full course of C26: classification, the two reads, the response
C26_FetchReached ==
    /\ Done("POST /chat")
    /\ loc.intent.requires_data_fetch
    /\ calls.llm = 2
    /\ calls.db_read = 2
    /\ resp.status = 200

\* an intent that asks for no data: two invocations, nothing read
C26_NoFetchReached ==
    /\ Done("POST /chat")
    /\ ~loc.intent.has_error
    /\ ~loc.intent.requires_data_fetch
    /\ calls.llm = 2
    /\ calls.db_read = 0

\* C27: an expense stored by a successful POST /extract/{user_id} is among
\* the expenses a later GET /insights/{user_id} of that user reads, when it
\* lies within the analysis period: the analyzer reads the store the
\* extraction endpoint writes to
C27_AnalyzersReadExtracted ==
    (/\ req.ep = "GET /insights/{user_id}"
     /\ pc \in {"analyze_invoke", "check_payload", "respond_insights", "idle"}
     /\ loc.read_ok)
        => \A i \in 1..Len(expenses) :
              (expenses[i].user_id = req.user_id
                  /\ expenses[i].created_date >= now - req.days)
                 => \E j \in 1..Len(loc.fetched) :
                        /\ loc.fetched[j].expence_name = expenses[i].expence_name
                        /\ loc.fetched[j].amount = expenses[i].amount

\* C28: the profile record upsert_user_profile(user_id, profile_data)
\* writes has the user_id of the argument, whatever profile_data holds, so
\* that PUT /profile/{user_id} touches the profile of that user only
C28_WrittenUserIdIsArgument ==
    (call.op = "upsert_user_profile" /\ call.result.success)
        => /\ \A i \in WrittenRows \cap (1..Len(user_profiles)) :
                 user_profiles[i].user_id = call.user_id
           /\ \A u \in Users \ {call.user_id} :
                 Cardinality({i \in 1..Len(user_profiles) : user_profiles[i].user_id = u})
                    = Cardinality({i \in 1..Len(call.before) : call.before[i].user_id = u})

\* C29: in every response of GET /expenses/{user_id} the summary agrees
\* with the expenses listed beside it: its count is their number and its
\* total the sum of their amounts, also when an insert for the user or a
\* failure of the backend falls into the time the request is served
C29_SummaryMatchesListed ==
    (Done("GET /expenses/{user_id}") /\ resp.status = 200)
        => /\ resp.summary.count = Len(resp.expenses)
           /\ resp.summary.total = SumAmounts(resp.expenses, 1)

\* C30: what fetch_user_expenses formats into the text of its query is an
\* integer number of days, whatever the model put into the intent's
\* suggested_analysis_period: the query of POST /chat differs between model
\* outputs in that integer only, and selects rows of the asking user only
C30_PeriodIsInteger ==
    (req.ep = "POST /chat" /\ calls.db_read > 0)
        => /\ loc.query.int
           /\ \A j \in 1..Len(loc.fetched) : loc.fetched[j].user_id = req.user_id

====
